---- MODULE Spec2Model ----
(***************************************************************************)
(* The agent execution loop of src/agent.py: Agent.execute, Tool.execute,  *)
(* Tool.from_agent and the agent graph that main() builds.                 *)
(*                                                                         *)
(* Strings are sequences of tokens, so that f-strings are concatenations   *)
(* and startswith / in / strip are computed on them.  The call stack of    *)
(* nested execute calls is the sequence `stack`; its last element is the   *)
(* running call.                                                           *)
(***************************************************************************)
EXTENDS Naturals, Sequences, FiniteSets, TLC

VARIABLES
    playback,   \* main(): TRUE when SpotifyPlaybackClient() initialised (lines 685-716)
    memory,     \* Agent.memory of every agent
    stack,      \* the active Agent.execute calls, outermost first
    returned,   \* how the most recently finished Agent.execute call ended
    sent,       \* the most recent _call_ollama: its arguments and what came back
    mode,       \* the inference endpoint: "free" or a stub that always answers alike
    fuel,       \* free endpoint: answers and tool calls it may still produce
    topCalls    \* number of top-level execute calls made so far

vars == <<playback, memory, stack, returned, sent, mode, fuel, topCalls>>

----------------------------------------------------------------------------
(* Bounds of the model *)

MaxFuel == 2            \* output of the free endpoint: 1 per answer or failure, 1 per requested call
MaxBatch == 2           \* longest tool-call batch of one response
MaxTopCalls == 2        \* top-level execute calls
DefaultMaxIterations == 2   \* stands for the default max_iterations = 10 of line 85
RecursionLimit == 5     \* nested execute calls the interpreter's stack holds

(* Program constants *)

max_retries == 2

----------------------------------------------------------------------------
(* Strings as token sequences *)

Range(s) == {s[i] : i \in 1..Len(s)}

StartsWith(s, p) == Len(p) <= Len(s) /\ SubSeq(s, 1, Len(p)) = p

Contains(s, p) ==
    \E i \in 0..Len(s) : i + Len(p) <= Len(s) /\ SubSeq(s, i + 1, i + Len(p)) = p

IsSpace(t) == t = " "

RECURSIVE LStrip(_)
LStrip(s) == IF s # <<>> /\ IsSpace(Head(s)) THEN LStrip(Tail(s)) ELSE s

RECURSIVE RStrip(_)
RStrip(s) ==
    IF s # <<>> /\ IsSpace(s[Len(s)]) THEN RStrip(SubSeq(s, 1, Len(s) - 1)) ELSE s

Strip(s) == RStrip(LStrip(s))

LowerTok(t) ==
    CASE t = "Spotify" -> "spotify"
      [] t = "Search" -> "search"
      [] t = "Playlist" -> "playlist"
      [] t = "Playback" -> "playback"
      [] t = "Coordinator" -> "coordinator"
      [] t = "Agent" -> "agent"
      [] OTHER -> t

Lower(s) == [i \in 1..Len(s) |-> LowerTok(s[i])]

ReplaceSpace(s) == [i \in 1..Len(s) |-> IF s[i] = " " THEN "_" ELSE s[i]]

----------------------------------------------------------------------------
(* The agents and tools that main() sets up *)

AllAgents == {"search", "playlist", "playback", "coordinator"}

Agents == IF playback THEN AllAgents ELSE AllAgents \ {"playback"}

AgentName(a) ==
    CASE a = "search" -> <<"Spotify", " ", "Search", " ", "Agent">>
      [] a = "playlist" -> <<"Playlist", " ", "Agent">>
      [] a = "playback" -> <<"Playback", " ", "Agent">>
      [] a = "coordinator" -> <<"Coordinator", " ", "Agent">>

\* line 53: f"call_{agent.name.lower().replace(' ', '_')}"
ToolNameOf(name) == <<"call_">> \o ReplaceSpace(Lower(name))

FromAgentName(a) == ToolNameOf(AgentName(a))

SpotifyTools ==
    {<<"search_track">>, <<"get_track_info">>, <<"get_artist_info">>,
     <<"get_recommendations">>, <<"get_playlist">>}

PlaybackTools ==
    {<<"play_track">>, <<"play_multiple_tracks">>, <<"pause_playback">>,
     <<"resume_playback">>, <<"skip_to_next">>, <<"skip_to_previous">>,
     <<"set_volume">>, <<"get_current_playback">>, <<"get_available_devices">>}

\* as Registry, the search agent also holding a wrapper of itself
RegistryWithSelfEdge(a) ==
    CASE a = "search" ->
            SpotifyTools \cup {FromAgentName("search")}
            \cup (IF playback THEN {FromAgentName("playback")} ELSE {})
      [] a = "playlist" -> {<<"get_playlist">>}
      [] a = "playback" -> PlaybackTools \cup {FromAgentName("search")}
      [] a = "coordinator" ->
            {FromAgentName("search"), FromAgentName("playlist")}
            \cup (IF playback THEN {FromAgentName("playback")} ELSE {})

\* Agent.tools after main() has registered everything: the keys of the dict
Registry(a) ==
    CASE a = "search" ->
            SpotifyTools \cup (IF playback THEN {FromAgentName("playback")} ELSE {})
      [] a = "playlist" -> {<<"get_playlist">>}
      [] a = "playback" -> PlaybackTools \cup {FromAgentName("search")}
      [] a = "coordinator" ->
            {FromAgentName("search"), FromAgentName("playlist")}
            \cup (IF playback THEN {FromAgentName("playback")} ELSE {})

\* A Tool instance: where it was constructed, and its name
ToolObject(made, name) == [made |-> made, name |-> name]

\* Agent.tools after main() has registered everything: the values of the dict.
\* create_spotify_tools and create_playback_tools are called once each;
\* every Tool.from_agent call constructs a new Tool.
Tools(a) ==
    CASE a = "search" ->
            {ToolObject("create_spotify_tools", n) : n \in SpotifyTools}
            \cup (IF playback
                  THEN {ToolObject("line 711", FromAgentName("playback"))}
                  ELSE {})
      [] a = "playlist" -> {ToolObject("create_spotify_tools", <<"get_playlist">>)}
      [] a = "playback" ->
            {ToolObject("create_playback_tools", n) : n \in PlaybackTools}
            \cup {ToolObject("line 708", FromAgentName("search"))}
      [] a = "coordinator" ->
            {ToolObject("line 746", FromAgentName("search")),
             ToolObject("line 747", FromAgentName("playlist"))}
            \cup (IF playback
                  THEN {ToolObject("line 749", FromAgentName("playback"))}
                  ELSE {})

\* Tool.from_agent(agent) for an agent of the given name: a new Tool
FromAgent(name) == ToolObject(<<"from_agent", name>>, ToolNameOf(name))

\* A registry without tools (line 76)
NoTools == [n \in {} |-> n]

\* line 82: self.tools[tool.name] = tool
AddTool(tools, tool) ==
    [n \in DOMAIN tools \cup {tool.name} |->
        IF n = tool.name THEN tool ELSE tools[n]]

\* Names an Agent can be constructed with (line 72 takes any string): those of
\* the agents main() has made, and spellings that differ in case or in space
\* against underscore
CandidateNames ==
    {AgentName(a) : a \in Agents}
    \cup {<<"Search", " ", "Agent">>, <<"search", " ", "agent">>,
          <<"Search", "_", "Agent">>, <<"Playlist", "_", "Agent">>}

\* The agents a registered tool name delegates to (Tool.from_agent's closure)
Delegates(a) == {b \in Agents : FromAgentName(b) \in Registry(a)}

IsDelegation(a, name) == \E b \in Delegates(a) : FromAgentName(b) = name

TargetOf(a, name) == CHOOSE b \in Delegates(a) : FromAgentName(b) = name

----------------------------------------------------------------------------
(* Memory entries and the strings execute produces *)

Entry(role, content, calls) == [role |-> role, content |-> content, tool_calls |-> calls]

UserEntry(text) == Entry("user", text, <<>>)

ToolEntry(result) == Entry("tool", result, <<>>)

AssistantEntry(text) == Entry("assistant", text, <<>>)

\* response["message"] of a tool-call response: empty content, the calls
ToolCallMessage(calls) == Entry("assistant", <<>>, calls)

CorrectionText ==
    <<"You MUST respond in natural language to the user.",
      " ", "Do NOT output JSON or tool calls as text.",
      " ", "Based on the tool results you received, provide a clear answer to the user's question.">>

CorrectionEntry == Entry("system", CorrectionText, <<>>)

SystemPrompt(a) == <<"system_prompt", a>>

SystemEntry(a) == Entry("system", SystemPrompt(a), <<>>)

Apology ==
    <<"I apologize, but I'm having trouble generating a proper response.",
      " ", "Please try rephrasing your question.">>

MaxIterationsMessage == <<"Max iterations reached without final answer.">>

LLMError(cause) == <<"Error calling LLM: ">> \o cause

\* as NotFound, with another wording
NotFoundReworded(name) == <<"Error: unknown tool ">> \o name

NotFound(name) == <<"Error: Tool ">> \o name \o <<" not found">>

\* as ToolError, without the tool's name
ToolErrorUnnamed(name, cause) == <<"Error executing tool: ">> \o cause

ToolError(name, cause) == <<"Error executing ">> \o name \o <<": ">> \o cause

ToolResult == <<"result">>

----------------------------------------------------------------------------
(* Agent._is_hallucinated_response *)

HallucinationNames ==
    {<<"call_", "search", "_", "agent">>,
     <<"call_", "playback", "_", "agent">>,
     <<"call_", "playlist", "_", "agent">>}

IsHallucinatedResponse(response) ==
    LET r == Strip(response) IN
        \/ StartsWith(r, <<"{", "\"name\":">>)
        \/ StartsWith(r, <<"{", "\"parameters\":">>)
        \/ \E n \in HallucinationNames : Contains(r, n) /\ Contains(r, <<"{">>)

----------------------------------------------------------------------------
(* The inference endpoint (outside the repository): what _call_ollama can   *)
(* give back.  arguments is "task" for a mapping holding a task, "empty"    *)
(* for a mapping without one, "not_mapping" for anything `**` cannot take.  *)

UserInput == <<"hello">>

Task == <<"task">>

UnknownTool == <<"find_song">>

Texts ==
    {<<"Here", " ", "you", " ", "go">>,
     <<"braces", " ", "{", " ", "are", " ", "fine">>,
     <<" ", "{", "\"name\":", " ", "search_track">>,
     <<"{", "\"parameters\":">>,
     <<"use", " ", "call_", "playback", "_", "agent", " ", "{">>,
     <<"use", " ", "call_", "spotify", "_", "search", "_", "agent", " ", "{">>}

PlainTool(a) ==
    CASE a = "search" -> <<"search_track">>
      [] a = "playlist" -> <<"get_playlist">>
      [] a = "playback" -> <<"play_track">>
      [] a = "coordinator" -> <<"search_track">>

StubTarget(a) == IF a = "search" THEN "playback" ELSE "search"

ToolCall(name, arguments) == [name |-> name, arguments |-> arguments]

\* The calls the free endpoint asks for: every delegation tool with a task, one
\* registered tool with each kind of bad arguments, the agent's plain tool, and
\* an unregistered name
Faulty(a) ==
    IF StubTarget(a) \in Delegates(a)
    THEN FromAgentName(StubTarget(a))
    ELSE PlainTool(a)

ReqCalls(a) ==
    {ToolCall(FromAgentName(b), "task") : b \in Delegates(a)}
    \cup {ToolCall(Faulty(a), g) : g \in {"empty", "not_mapping"}}
    \cup {ToolCall(n, "task") : n \in {PlainTool(a)} \cap Registry(a)}
    \cup {ToolCall(UnknownTool, g) : g \in {"task", "not_mapping"}}

Batches(a) ==
    UNION {[1..n -> ReqCalls(a)] : n \in 1..MaxBatch}

Fail == [kind |-> "fail", text |-> <<>>, calls |-> <<>>]

Text(t) == [kind |-> "text", text |-> t, calls |-> <<>>]

ToolCalls(b) == [kind |-> "tool_calls", text |-> <<>>, calls |-> b]

Cost(r) == IF r.kind = "tool_calls" THEN Len(r.calls) ELSE 1

Stubs == {"fail", "delegate", "hallucinate", "tool", "fault"}

StubResponse(m, a) ==
    CASE m = "fail" -> Fail
      [] m = "delegate" ->
            ToolCalls(<<ToolCall(FromAgentName(StubTarget(a)), "task")>>)
      [] m = "hallucinate" -> Text(<<"{", "\"parameters\":">>)
      [] m = "tool" -> ToolCalls(<<ToolCall(PlainTool(a), "task")>>)
      [] m = "fault" ->
            IF a = "coordinator"
            THEN ToolCalls(<<ToolCall(FromAgentName("search"), "task")>>)
            ELSE ToolCalls(<<ToolCall(Faulty(a), "not_mapping")>>)

\* The endpoint can answer r to agent a in the current state
Answers(a, r) ==
    IF mode = "free"
    THEN Cost(r) <= fuel \/ (fuel = 0 /\ r = Fail)
    ELSE r = StubResponse(mode, a)

Spend(r) == IF mode = "free" /\ Cost(r) <= fuel THEN fuel - Cost(r) ELSE fuel

----------------------------------------------------------------------------
(* Agent.execute, one frame per active call *)

Frame(a, m) ==
    [agent |-> a, max_iterations |-> m, iteration |-> 0, attempt |-> 0,
     pc |-> "loop", messages |-> <<>>, tool_calls |-> <<>>, idx |-> 0,
     calls |-> 0, failures |-> 0, rounds |-> 0, retried |-> "none"]

Top == stack[Len(stack)]

Running(p) == stack # <<>> /\ Top.pc = p

\* as MemoryOf, one list for all agents (a list made once, at class level)
MemoryShared(a) == "search"

\* line 77: self.memory = [], a new list for every Agent; lists are named
\* after the agent that made them
MemoryOf(a) == a

\* as Remember, keeping only the latest entries once the list is long
RememberCompacting(mem, a, e) ==
    [mem EXCEPT ![MemoryOf(a)] =
        IF Len(@) >= 3 THEN Append(Tail(@), e) ELSE Append(@, e)]

\* self.memory.append(entry)
Remember(mem, a, e) == [mem EXCEPT ![MemoryOf(a)] = Append(@, e)]

After(stk, mem, ret) == [stack |-> stk, memory |-> mem, returned |-> ret]

ReplaceTop(stk, f) == [stk EXCEPT ![Len(stk)] = f]

\* lines 123-130: the result of call idx is appended; after the last call of
\* the batch the retry loop is left and the while condition is tested again
AfterResult(f, mem, result) ==
    [frame |->
        IF f.idx = Len(f.tool_calls)
        THEN [f EXCEPT !.idx = f.idx + 1, !.pc = "loop", !.rounds = f.rounds + 1]
        ELSE [f EXCEPT !.idx = f.idx + 1, !.pc = "dispatch"],
     memory |-> Remember(mem, f.agent, ToolEntry(result))]

Outcome(f, depth, how, value) ==
    [how |-> how, agent |-> f.agent, value |-> value, depth |-> depth,
     max_iterations |-> f.max_iterations, iteration |-> f.iteration,
     attempt |-> f.attempt, calls |-> f.calls, failures |-> f.failures,
     rounds |-> f.rounds, retried |-> f.retried]

\* as Return, a failed delegate ending its caller's loop: the caller's
\* iteration count is used up
ReturnEndsCaller(stk, mem, value) ==
    LET f == stk[Len(stk)]
        ret == Outcome(f, Len(stk), "return", value)
    IN  IF Len(stk) = 1
        THEN After(<<>>, mem, ret)
        ELSE LET rest == SubSeq(stk, 1, Len(stk) - 1)
                 r == AfterResult(rest[Len(rest)], mem, value)
             IN  After(ReplaceTop(rest, [r.frame EXCEPT !.pc = "loop",
                                            !.iteration = r.frame.max_iterations]),
                       r.memory, ret)

\* `return value` in execute.  A nested call was made by agent_function
\* (line 50) inside Tool.execute (lines 40-42) at line 119 of the caller,
\* which goes on with lines 123-130.
Return(stk, mem, value) ==
    LET f == stk[Len(stk)]
        ret == Outcome(f, Len(stk), "return", value)
    IN  IF Len(stk) = 1
        THEN After(<<>>, mem, ret)
        ELSE LET rest == SubSeq(stk, 1, Len(stk) - 1)
                 r == AfterResult(rest[Len(rest)], mem, value)
             IN  After(ReplaceTop(rest, r.frame), r.memory, ret)

\* as HasAttemptsLeft, one attempt too many
HasAttemptsLeftOffByOne(f) == f.attempt < max_retries

\* lines 138 and 155: attempt < max_retries - 1
HasAttemptsLeft(f) == f.attempt < max_retries - 1

\* as OnException, raising again on the last attempt instead of returning the
\* message: the top-level caller gets the exception, a delegating caller's
\* Tool.execute turns it into its error string
OnExceptionReraises(stk, mem, cause) ==
    LET f == stk[Len(stk)]
        ret == Outcome(f, Len(stk), "raise", cause)
    IN  IF HasAttemptsLeft(f)
        THEN After(ReplaceTop(stk, [f EXCEPT !.attempt = f.attempt + 1,
                                             !.pc = "call",
                                             !.retried = "exception"]),
                   mem, returned)
        ELSE IF Len(stk) = 1
        THEN After(<<>>, mem, ret)
        ELSE LET rest == SubSeq(stk, 1, Len(stk) - 1)
                 p == rest[Len(rest)]
                 r == AfterResult(p, mem, ToolError(p.tool_calls[p.idx].name, cause))
             IN  After(ReplaceTop(rest, r.frame), r.memory, ret)

\* as OnException, the retry counting as an outer iteration
OnExceptionConsumesIteration(stk, mem, cause) ==
    LET f == stk[Len(stk)] IN
        IF HasAttemptsLeft(f)
        THEN After(ReplaceTop(stk, [f EXCEPT !.attempt = f.attempt + 1,
                                             !.iteration = f.iteration + 1,
                                             !.pc = "call",
                                             !.retried = "exception"]),
                   mem, returned)
        ELSE Return(stk, mem, LLMError(cause))

\* as OnException, recording the error string as an assistant entry before
\* returning it
OnExceptionRecords(stk, mem, cause) ==
    LET f == stk[Len(stk)] IN
        IF HasAttemptsLeft(f)
        THEN After(ReplaceTop(stk, [f EXCEPT !.attempt = f.attempt + 1,
                                             !.pc = "call",
                                             !.retried = "exception"]),
                   mem, returned)
        ELSE Return(stk, Remember(mem, f.agent, AssistantEntry(LLMError(cause))),
                    LLMError(cause))

\* lines 152-157: except Exception around the whole body of the retry loop
OnException(stk, mem, cause) ==
    LET f == stk[Len(stk)] IN
        IF HasAttemptsLeft(f)
        THEN After(ReplaceTop(stk, [f EXCEPT !.attempt = f.attempt + 1,
                                             !.pc = "call",
                                             !.retried = "exception"]),
                   mem, returned)
        ELSE Return(stk, mem, LLMError(cause))

Becomes(s) ==
    /\ stack' = s.stack
    /\ memory' = s.memory
    /\ returned' = s.returned

----------------------------------------------------------------------------
(* The steps of the program *)

Init ==
    /\ playback \in BOOLEAN
    /\ memory = [a \in AllAgents |-> <<>>]
    /\ stack = <<>>
    /\ returned = [how |-> "none"]
    /\ sent = [n |-> 0, agent |-> "none", messages |-> <<>>, retried |-> "none",
               response |-> [kind |-> "none", text |-> <<>>, calls |-> <<>>]]
    /\ mode \in {"free"} \cup Stubs
    /\ fuel = IF mode = "free" THEN MaxFuel ELSE 0
    /\ topCalls = 0

\* as Messages, with the latest two entries of memory only
MessagesLatest(a, mem) ==
    LET m == mem[MemoryOf(a)] IN
        <<SystemEntry(a)>> \o (IF Len(m) > 2 THEN SubSeq(m, Len(m) - 1, Len(m)) ELSE m)

\* line 95: the context of the iteration's inference calls
Messages(a, mem) == <<SystemEntry(a)>> \o mem[MemoryOf(a)]

\* as LoopContinues, with <= for <
LoopContinuesOffByOne(f) == f.iteration <= f.max_iterations

\* line 91: while iteration < max_iterations
LoopContinues(f) == f.iteration < f.max_iterations

\* lines 85-90, called from outside (main, line 773): the user entry is
\* appended and the loop is entered.  Against a stub one call is made; against
\* the free endpoint calls are made while it has output left.
Execute(a, m) ==
    /\ stack = <<>>
    /\ topCalls < MaxTopCalls
    /\ mode = "free" => fuel > 0
    /\ mode # "free" => topCalls = 0
    /\ a \in Agents
    /\ topCalls' = topCalls + 1
    /\ stack' = <<Frame(a, m)>>
    /\ memory' = Remember(memory, a, UserEntry(UserInput))
    /\ UNCHANGED <<playback, returned, sent, mode, fuel>>

\* lines 91-101 and 159: the while test, then the context of the iteration
LoopHead ==
    /\ Running("loop")
    /\ IF LoopContinues(Top)
       THEN Becomes(After(
                ReplaceTop(stack, [Top EXCEPT !.iteration = Top.iteration + 1,
                                              !.attempt = 0,
                                              !.retried = "none",
                                              !.tool_calls = <<>>,
                                              !.idx = 0,
                                              !.messages = Messages(Top.agent, memory),
                                              !.pc = "call"]),
                memory, returned))
       ELSE Becomes(Return(stack, memory, MaxIterationsMessage))
    /\ UNCHANGED <<playback, sent, mode, fuel, topCalls>>

\* line 104: what _call_ollama is called with
Request(f, r) ==
    [n |-> sent.n + 1, agent |-> f.agent, messages |-> f.messages,
     retried |-> f.retried, response |-> r]

Called(f, failed) ==
    [f EXCEPT !.calls = f.calls + 1,
              !.failures = f.failures + (IF failed THEN 1 ELSE 0)]

\* lines 104, 152-157: _call_ollama raises (connection error, HTTP status,
\* a body that is not the expected JSON)
CallFails ==
    /\ Running("call")
    /\ Answers(Top.agent, Fail)
    /\ sent' = Request(Top, Fail)
    /\ fuel' = Spend(Fail)
    /\ Becomes(OnException(ReplaceTop(stack, Called(Top, TRUE)), memory,
                           <<"ConnectionError">>))
    /\ UNCHANGED <<playback, mode, topCalls>>

\* as OnText, without the check of line 136: every text is appended and
\* returned
OnTextFallsThrough(stk, mem, t) ==
    LET f == stk[Len(stk)] IN
        Return(stk, Remember(mem, f.agent, AssistantEntry(t)), t)

\* as OnText, returning a valid answer without recording it (no line 149)
OnTextUnrecorded(stk, mem, t) ==
    LET f == stk[Len(stk)] IN
        IF IsHallucinatedResponse(t)
        THEN IF HasAttemptsLeft(f)
             THEN After(ReplaceTop(stk, [f EXCEPT !.attempt = f.attempt + 1,
                                                  !.pc = "call",
                                                  !.retried = "hallucination"]),
                        Remember(mem, f.agent, CorrectionEntry), returned)
             ELSE Return(stk, mem, Apology)
        ELSE Return(stk, mem, t)

\* as OnText, recording the apology as an assistant entry
OnTextRecordsApology(stk, mem, t) ==
    LET f == stk[Len(stk)] IN
        IF IsHallucinatedResponse(t)
        THEN IF HasAttemptsLeft(f)
             THEN After(ReplaceTop(stk, [f EXCEPT !.attempt = f.attempt + 1,
                                                  !.pc = "call",
                                                  !.retried = "hallucination"]),
                        Remember(mem, f.agent, CorrectionEntry), returned)
             ELSE Return(stk, Remember(mem, f.agent, AssistantEntry(Apology)), Apology)
        ELSE Return(stk, Remember(mem, f.agent, AssistantEntry(t)), t)

\* lines 131-150: a response without tool calls
OnText(stk, mem, t) ==
    LET f == stk[Len(stk)] IN
        IF IsHallucinatedResponse(t)
        THEN IF HasAttemptsLeft(f)
             THEN After(ReplaceTop(stk, [f EXCEPT !.attempt = f.attempt + 1,
                                                  !.pc = "call",
                                                  !.retried = "hallucination"]),
                        Remember(mem, f.agent, CorrectionEntry), returned)
             ELSE Return(stk, mem, Apology)
        ELSE Return(stk, Remember(mem, f.agent, AssistantEntry(t)), t)

CallReturnsText ==
    /\ Running("call")
    /\ \E t \in Texts :
        /\ Answers(Top.agent, Text(t))
        /\ fuel' = Spend(Text(t))
        /\ sent' = Request(Top, Text(t))
        /\ Becomes(OnText(ReplaceTop(stack, Called(Top, FALSE)), memory, t))
    /\ UNCHANGED <<playback, mode, topCalls>>

\* lines 107-112: a response with tool calls; its message is appended and
\* the first call of the batch is next
OnToolCalls(stk, mem, b) ==
    LET f == stk[Len(stk)] IN
        After(ReplaceTop(stk, [f EXCEPT !.tool_calls = b, !.idx = 1,
                                        !.pc = "dispatch"]),
              Remember(mem, f.agent, ToolCallMessage(b)), returned)

CallReturnsToolCalls ==
    /\ Running("call")
    /\ \E r \in {ToolCalls(b) : b \in Batches(Top.agent)}
               \cup (IF mode = "free" THEN {} ELSE {StubResponse(mode, Top.agent)}) :
        /\ r.kind = "tool_calls"
        /\ Answers(Top.agent, r)
        /\ fuel' = Spend(r)
        /\ sent' = Request(Top, r)
        /\ Becomes(OnToolCalls(ReplaceTop(stack, Called(Top, FALSE)), memory, r.calls))
    /\ UNCHANGED <<playback, mode, topCalls>>

\* line 113-114: the call being dispatched
Current(f) == f.tool_calls[f.idx]

\* line 118: tool_name in self.tools
Registered(a, name) == name \in Registry(a)

\* line 119: `**tool_args` needs a mapping with string keys other than self
Unpackable(arguments) == arguments # "not_mapping"

\* lines 120-127: an unregistered name; tool_args is not unpacked
DispatchUnknown ==
    /\ Running("dispatch")
    /\ ~Registered(Top.agent, Current(Top).name)
    /\ LET r == AfterResult(Top, memory, NotFound(Current(Top).name)) IN
        Becomes(After(ReplaceTop(stack, r.frame), r.memory, returned))
    /\ UNCHANGED <<playback, sent, mode, fuel, topCalls>>

\* line 119 raises before Tool.execute is entered; lines 152-157 catch it
DispatchFault ==
    /\ Running("dispatch")
    /\ Registered(Top.agent, Current(Top).name)
    /\ ~Unpackable(Current(Top).arguments)
    /\ Becomes(OnException(stack, memory, <<"TypeError">>))
    /\ UNCHANGED <<playback, sent, mode, fuel, topCalls>>

\* Tool.execute, lines 38-44, of a plain tool: str(result), or the error
\* string when the function raises
PlainResults(name) == {ToolResult, ToolError(name, <<"Exception">>)}

DispatchPlain ==
    /\ Running("dispatch")
    /\ Registered(Top.agent, Current(Top).name)
    /\ ~IsDelegation(Top.agent, Current(Top).name)
    /\ Unpackable(Current(Top).arguments)
    /\ \E result \in PlainResults(Current(Top).name) :
        LET r == AfterResult(Top, memory, result) IN
            Becomes(After(ReplaceTop(stack, r.frame), r.memory, returned))
    /\ UNCHANGED <<playback, sent, mode, fuel, topCalls>>

\* The interpreter raises RecursionError when the stack is full
StackFull(stk) == Len(stk) >= RecursionLimit

\* Tool.execute of a delegation tool whose agent_function (line 49) cannot be
\* run: no task argument, or no room on the stack; lines 43-44 catch both
DelegationError(stk, arguments) ==
    IF arguments = "empty" THEN <<"TypeError">>
    ELSE IF StackFull(stk) THEN <<"RecursionError">>
    ELSE <<>>

DispatchDelegateFails ==
    /\ Running("dispatch")
    /\ Registered(Top.agent, Current(Top).name)
    /\ IsDelegation(Top.agent, Current(Top).name)
    /\ Unpackable(Current(Top).arguments)
    /\ DelegationError(stack, Current(Top).arguments) # <<>>
    /\ LET r == AfterResult(Top, memory,
                    ToolError(Current(Top).name,
                              DelegationError(stack, Current(Top).arguments)))
       IN  Becomes(After(ReplaceTop(stack, r.frame), r.memory, returned))
    /\ UNCHANGED <<playback, sent, mode, fuel, topCalls>>

\* lines 119, 41, 50, 85-90: agent.execute(task) with the default
\* max_iterations; the caller waits at line 119
DispatchDelegate ==
    /\ Running("dispatch")
    /\ Registered(Top.agent, Current(Top).name)
    /\ IsDelegation(Top.agent, Current(Top).name)
    /\ Unpackable(Current(Top).arguments)
    /\ DelegationError(stack, Current(Top).arguments) = <<>>
    /\ LET b == TargetOf(Top.agent, Current(Top).name) IN
        /\ stack' = Append(ReplaceTop(stack, [Top EXCEPT !.pc = "await"]),
                           Frame(b, DefaultMaxIterations))
        /\ memory' = Remember(memory, b, UserEntry(Task))
    /\ UNCHANGED <<playback, returned, sent, mode, fuel, topCalls>>

\* The agents whose execute the outside calls: the coordinator (line 773), and
\* the search agent as a member of the delegation cycle
TopAgents == {"coordinator", "search"}

\* The max_iterations the outside passes: any for the coordinator, the default
\* for the search agent
TopIterations(a) ==
    IF a = "coordinator" THEN 0..DefaultMaxIterations ELSE {DefaultMaxIterations}

Next ==
    \/ \E a \in TopAgents : \E m \in TopIterations(a) : Execute(a, m)
    \/ LoopHead
    \/ CallFails
    \/ CallReturnsText
    \/ CallReturnsToolCalls
    \/ DispatchUnknown
    \/ DispatchFault
    \/ DispatchPlain
    \/ DispatchDelegateFails
    \/ DispatchDelegate

Spec == Init /\ [][Next]_vars

\* The program runs on: every enabled step is eventually taken
FairSpec == Spec /\ WF_vars(Next)

\* main() with the playback agent set up: the graph with the cycle
\* search agent <-> playback agent (lines 707-711)
CycleInit == Init /\ playback

CycleSpec == CycleInit /\ [][Next]_vars /\ WF_vars(Next)

\* main() when the playback initialisation fails (lines 714-716): coordinator
\* -> search agent, playlist agent, without a cycle
AcyclicInit == Init /\ ~playback

AcyclicSpec == AcyclicInit /\ [][Next]_vars /\ WF_vars(Next)

----------------------------------------------------------------------------
(* Properties *)

Finished == returned.how # "none"

IsPrefix(s, t) == Len(s) <= Len(t) /\ SubSeq(t, 1, Len(s)) = s

Last(s) == s[Len(s)]

\* C1: every finished execute call ended by a return, never by raising to its
\* caller, and what it returned is a validated answer, the apology, the
\* max-iterations message or an "Error calling LLM: ..." message.
C1_ReturnsOneOfFourStrings ==
    Finished =>
        /\ returned.how = "return"
        /\ \/ returned.value \in Texts /\ ~IsHallucinatedResponse(returned.value)
           \/ returned.value = <<"I apologize, but I'm having trouble generating a proper response.",
                                 " ", "Please try rephrasing your question.">>
           \/ returned.value = <<"Max iterations reached without final answer.">>
           \/ /\ StartsWith(returned.value, <<"Error calling LLM: ">>)
              /\ Len(returned.value) > 1

\* C1 witness: a delegate's execute turned a fault of its own tool dispatch
\* into the error string and returned it to the delegating agent.
C1_Witness ==
    /\ Finished
    /\ returned.how = "return"
    /\ returned.depth > 1
    /\ returned.value = <<"Error calling LLM: ", "TypeError">>

\* C5: an inference response that is plain text classified as hallucinated is
\* never returned: the step that receives it either appends the corrective
\* system entry and stays in the same iteration for another attempt, or, on the
\* last attempt, returns the apology; and no finished call returned such a text.
C5_HallucinationNeverReturned ==
    [][ /\ (sent'.n # sent.n /\ sent'.response.kind = "text"
            /\ IsHallucinatedResponse(sent'.response.text))
           => LET f == Top a == f.agent IN
                \/ /\ f.attempt < max_retries - 1
                   /\ memory'[a] = Append(memory[a],
                        [role |-> "system", content |-> CorrectionText, tool_calls |-> <<>>])
                   /\ Len(stack') = Len(stack)
                   /\ stack'[Len(stack)].pc = "call"
                   /\ stack'[Len(stack)].iteration = f.iteration
                   /\ stack'[Len(stack)].attempt = f.attempt + 1
                   /\ returned' = returned
                \/ /\ f.attempt = max_retries - 1
                   /\ Len(stack') = Len(stack) - 1
                   /\ returned'.how = "return"
                   /\ returned'.value = Apology
                   /\ returned'.value # sent'.response.text
        /\ (returned' # returned) => ~IsHallucinatedResponse(returned'.value)
      ]_vars

\* C5 witness: a call returned the apology after a hallucinated text that
\* starts with white space before the JSON opener.
C5_Witness ==
    /\ Finished
    /\ returned.value = Apology
    /\ sent.response.kind = "text"
    /\ Head(sent.response.text) = " "
    /\ IsHallucinatedResponse(sent.response.text)

\* C7: an execute call with max_iterations >= 1 all of whose inference calls
\* failed made exactly max_retries (2) inference calls and returned
\* "Error calling LLM: <cause>".
C7_AllFailExactlyTwoCalls ==
    (Finished /\ returned.max_iterations >= 1 /\ returned.calls = returned.failures)
        => /\ returned.calls = 2
           /\ returned.how = "return"
           /\ returned.value = <<"Error calling LLM: ", "ConnectionError">>

\* C7 witness: such a call, with the largest max_iterations of the model.
C7_Witness ==
    /\ Finished
    /\ returned.max_iterations = DefaultMaxIterations
    /\ returned.max_iterations > 1
    /\ returned.calls = returned.failures
    /\ returned.calls = max_retries

\* C8: a call whose every iteration ended in a completed tool dispatch
\* (rounds = max_iterations) returned the max-iterations message; that message
\* is returned only after exactly max_iterations rounds; with max_iterations = 0
\* no inference call is made.
C8_MaxIterationsAfterExactlyMRounds ==
    Finished =>
        /\ returned.rounds = returned.max_iterations
            => /\ returned.how = "return"
               /\ returned.value = <<"Max iterations reached without final answer.">>
        /\ returned.value = <<"Max iterations reached without final answer.">>
            => /\ returned.rounds = returned.max_iterations
               /\ returned.iteration = returned.max_iterations
        /\ returned.max_iterations = 0 => returned.calls = 0

\* C8 witness: the message after two rounds of dispatch.
C8_Witness ==
    /\ Finished
    /\ returned.value = MaxIterationsMessage
    /\ returned.max_iterations = 2
    /\ returned.rounds = 2
    /\ returned.calls >= 2

\* C9: every step leaves each agent's memory unchanged or extends it at the
\* end: the old memory is a prefix of the new one.
C9_MemoryAppendOnly ==
    [][\A a \in AllAgents : IsPrefix(memory[a], memory'[a])]_vars

\* C9 witness: the search agent's memory was extended by a top-level call and,
\* through delegation, by a nested call of a second top-level call.
C9_Witness ==
    /\ topCalls = 2
    /\ Len(stack) >= 2
    /\ Top.agent = "search"
    /\ Len(memory["search"]) >= 3
    /\ memory["search"][1] = UserEntry(UserInput)
    /\ \E i \in 2..Len(memory["search"]) : memory["search"][i] = UserEntry(Task)

\* C10: dispatching a call whose name is not in the agent's registry appends
\* the tool entry "Error: Tool <name> not found", raises nothing, and goes on
\* with the next call of the batch or, after the last one, with the outer loop.
C10_UnknownToolNotFound ==
    [][(Running("dispatch") /\ Top.tool_calls[Top.idx].name \notin Registry(Top.agent))
        => LET f == Top
               name == f.tool_calls[f.idx].name
               e == Last(memory'[f.agent])
           IN  /\ memory' = [memory EXCEPT ![f.agent] = Append(@, e)]
               /\ e.role = "tool"
               /\ e.content = <<"Error: Tool ">> \o name \o <<" not found">>
               /\ Contains(e.content, <<" not found">>)
               /\ returned' = returned
               /\ Len(stack') = Len(stack)
               /\ stack'[Len(stack)].idx = f.idx + 1
               /\ stack'[Len(stack)].attempt = f.attempt
               /\ stack'[Len(stack)].pc =
                    IF f.idx < Len(f.tool_calls) THEN "dispatch" ELSE "loop"
      ]_vars

\* C10 witness: the first call of a batch of two named an unregistered tool,
\* its entry is in memory and the second call is being dispatched.
C10_Witness ==
    /\ Running("dispatch")
    /\ Top.idx = 2
    /\ Top.tool_calls[1].name \notin Registry(Top.agent)
    /\ Last(memory[Top.agent]).role = "tool"
    /\ Contains(Last(memory[Top.agent]).content, <<" not found">>)

\* C2: with the delegation cycle search agent <-> playback agent in place,
\* every execute call that is running eventually returns to the outside,
\* whatever the endpoint answers (the stub that always requests the delegation
\* tool included).
C2_CycleCallsReturn ==
    (playback /\ stack # <<>>) ~> (stack = <<>> /\ returned.how = "return")

\* C2 witness: under the stub that always requests the delegation tool a
\* top-level call of the search agent went round the cycle until the stack was
\* full, and has returned.
C2_Witness ==
    /\ playback
    /\ mode = "delegate"
    /\ stack = <<>>
    /\ returned.how = "return"
    /\ returned.agent = "search"
    /\ returned.depth = 1
    /\ returned.max_iterations = DefaultMaxIterations
    /\ \E i \in 1..Len(memory["search"]) :
            memory["search"][i].content =
                <<"Error executing ">> \o FromAgentName("playback")
                    \o <<": ", "RecursionError">>
    /\ \E i \in 1..Len(memory["playback"]) :
            memory["playback"][i].content = MaxIterationsMessage

\* C3 (as claimed): in the cycle the number of active execute calls is at most
\* the product of the two agents' iteration caps; no call of the model has a
\* cap above DefaultMaxIterations.
C3_DepthWithinCapProduct ==
    playback => Len(stack) <= DefaultMaxIterations * DefaultMaxIterations

\* A requested call and the tool entry that holds its result
ResultMatches(a, call, e) ==
    /\ e.role = "tool"
    /\ call.name \notin Registry(a) =>
            e.content = <<"Error: Tool ">> \o call.name \o <<" not found">>
    /\ (call.name \in Registry(a) /\ ~IsDelegation(a, call.name)) =>
            e.content \in PlainResults(call.name)

\* Every tool-call-bearing assistant entry of mem is followed by one tool
\* entry per requested call, in request order
BatchesAnswered(a, mem) ==
    \A k \in 1..Len(mem) :
        LET n == Len(mem[k].tool_calls) IN
            n > 0 =>
                /\ k + n <= Len(mem)
                /\ \A i \in 1..n : ResultMatches(a, mem[k].tool_calls[i], mem[k + i])

\* C4 (as claimed): when the coordinator, which no agent delegates to, is
\* about to issue an inference call, every batch it was asked to run has its n
\* tool entries in memory, the i-th for the i-th call.
C4_BatchAnsweredBeforeNextCall ==
    (Len(stack) = 1 /\ Top.agent = "coordinator" /\ Top.pc = "call")
        => BatchesAnswered("coordinator", memory["coordinator"])

\* C6 (as claimed): the inference call re-issued after a hallucinated text is
\* made with a context whose last entry is the corrective system entry.
C6_RetrySeesCorrection ==
    sent.retried = "hallucination"
        => /\ sent.messages # <<>>
           /\ Last(sent.messages) =
                [role |-> "system", content |-> CorrectionText, tool_calls |-> <<>>]

\* C11: dispatching a registered tool whose arguments can be unpacked never
\* raises: when the underlying function fails (a plain tool's function raises,
\* a delegation tool is called without its task, the interpreter's stack is
\* full) the string "Error executing <tool-name>: <cause>", which contains
\* the tool's name, is appended as the tool result, nothing is returned or
\* raised, and the agent's loop goes on in the same attempt.
C11_ToolExecuteNeverRaises ==
    [][(/\ Running("dispatch")
        /\ Top.tool_calls[Top.idx].name \in Registry(Top.agent)
        /\ Top.tool_calls[Top.idx].arguments # "not_mapping"
        /\ Len(stack') <= Len(stack))
        => LET f == Top
               name == f.tool_calls[f.idx].name
               e == Last(memory'[f.agent])
               failed == IF IsDelegation(f.agent, name)
                         THEN {<<"TypeError">>, <<"RecursionError">>}
                         ELSE {<<"Exception">>}
           IN  /\ memory' = [memory EXCEPT ![f.agent] = Append(@, e)]
               /\ e.role = "tool"
               /\ \/ e.content = <<"result">> /\ ~IsDelegation(f.agent, name)
                  \/ /\ \E c \in failed :
                            e.content = <<"Error executing ">> \o name \o <<": ">> \o c
                     /\ Contains(e.content, name)
               /\ returned' = returned
               /\ Len(stack') = Len(stack)
               /\ stack'[Len(stack)].idx = f.idx + 1
               /\ stack'[Len(stack)].attempt = f.attempt
               /\ stack'[Len(stack)].iteration = f.iteration
               /\ stack'[Len(stack)].pc =
                    IF f.idx < Len(f.tool_calls) THEN "dispatch" ELSE "loop"
      ]_vars

\* C11 witness: after a plain tool's function raised, its error string is the
\* last entry of memory and the agent is about to issue the inference call of
\* its next iteration.
C11_Witness ==
    /\ Running("call")
    /\ Top.iteration = 2
    /\ Top.attempt = 0
    /\ Last(memory[Top.agent]) =
            [role |-> "tool",
             content |-> <<"Error executing ", "search_track", ": ", "Exception">>,
             tool_calls |-> <<>>]

\* The strings execute returns when it gives up
IsFailureString(v) ==
    \/ v = <<"I apologize, but I'm having trouble generating a proper response.",
             " ", "Please try rephrasing your question.">>
    \/ v = <<"Max iterations reached without final answer.">>
    \/ StartsWith(v, <<"Error calling LLM: ">>)

\* C12: when a delegated execute returns the apology, the max-iterations
\* message or an "Error calling LLM: ..." string, the delegating agent appends
\* it as one tool entry, the delegator neither returns nor raises, and it goes
\* on in its own loop: with the next call of the batch or with the loop test,
\* its iteration and attempt counters untouched.
C12_DelegateFailureIsToolResult ==
    [][(/\ Len(stack) >= 2
        /\ Len(stack') = Len(stack) - 1
        /\ IsFailureString(returned'.value))
        => LET p == stack[Len(stack) - 1]
               q == stack'[Len(stack')]
           IN  /\ returned'.how = "return"
               /\ returned'.agent = Top.agent
               /\ p.pc = "await"
               /\ memory' = [memory EXCEPT ![p.agent] =
                        Append(@, [role |-> "tool", content |-> returned'.value,
                                   tool_calls |-> <<>>])]
               /\ q.agent = p.agent
               /\ q.iteration = p.iteration
               /\ q.attempt = p.attempt
               /\ q.idx = p.idx + 1
               /\ q.pc = IF p.idx < Len(p.tool_calls) THEN "dispatch" ELSE "loop"
      ]_vars

\* C12 witness: a delegator that received the max-iterations message of its
\* delegate as a tool result is about to issue the inference call of its next
\* iteration.
C12_Witness ==
    /\ Len(stack) >= 2
    /\ Top.pc = "call"
    /\ Top.iteration = 2
    /\ Last(memory[Top.agent]) =
            [role |-> "tool",
             content |-> <<"Max iterations reached without final answer.">>,
             tool_calls |-> <<>>]

\* C13 (as claimed): no step taken while a batch is being dispatched abandons
\* the batch: the step either enters a delegate, or records the result of the
\* current call and moves to the next call or, after the last one, to the
\* loop test; no inference call is issued and nothing is returned before the
\* last call of the batch has run.
C13_BatchRunsToCompletion ==
    [][(Running("dispatch") /\ Len(stack') <= Len(stack))
        => /\ Len(stack') = Len(stack)
           /\ returned' = returned
           /\ stack'[Len(stack)].tool_calls = Top.tool_calls
           /\ stack'[Len(stack)].idx = Top.idx + 1
           /\ stack'[Len(stack)].pc =
                IF Top.idx < Len(Top.tool_calls) THEN "dispatch" ELSE "loop"
      ]_vars

\* The agents reachable from a by delegation edges, a included
ReachableFrom(a) ==
    LET step(S) == S \cup UNION {Delegates(x) : x \in S}
    IN  step(step(step({a})))

\* C14: a step changes the memory of an agent only if that agent's execute is
\* the running call or the call the step enters or returns to; during a
\* top-level call on agent A the memory of every agent not reachable from A
\* by delegation edges stays as it is; and no two agents hold the same list.
C14_MemoryTouchedOnlyByOwnExecute ==
    [][ /\ \A b \in AllAgents :
            memory'[b] # memory[b]
                => \/ stack # <<>> /\ b = Top.agent
                   \/ stack' # <<>> /\ b = stack'[Len(stack')].agent
        /\ \A b \in AllAgents :
            memory'[b] # memory[b]
                => LET root == IF stack # <<>> THEN stack[1].agent
                                               ELSE stack'[1].agent
                   IN  b \in ReachableFrom(root)
        /\ \A a, b \in AllAgents : a # b => MemoryOf(a) # MemoryOf(b)
      ]_vars

\* C14 witness: after a call on the coordinator, a call on the search agent
\* has delegated to the playback agent, whose memory holds the task, while the
\* playlist agent, not reachable from the search agent, has an empty memory.
C14_Witness ==
    /\ playback
    /\ topCalls = 2
    /\ Len(stack) = 2
    /\ stack[1].agent = "search"
    /\ Top.agent = "playback"
    /\ "playlist" \notin ReachableFrom("search")
    /\ "coordinator" \notin ReachableFrom("search")
    /\ memory["playback"] = <<UserEntry(Task)>>
    /\ memory["coordinator"] = <<UserEntry(UserInput)>>
    /\ memory["playlist"] = <<>>

\* C15: the step that receives a plain text passing the hallucination check
\* appends exactly one entry to the agent's memory, the assistant entry with
\* that text, and returns that text: when the call returns, the last entry of
\* the agent's memory is the assistant entry equal to the returned value.
C15_ValidAnswerRecordedAndReturned ==
    [][(/\ sent'.n # sent.n
        /\ sent'.response.kind = "text"
        /\ ~IsHallucinatedResponse(sent'.response.text))
        => LET a == Top.agent
               t == sent'.response.text
           IN  /\ memory'[a] = Append(memory[a],
                        [role |-> "assistant", content |-> t, tool_calls |-> <<>>])
               /\ Len(stack') = Len(stack) - 1
               /\ returned'.how = "return"
               /\ returned'.agent = a
               /\ returned'.value = t
               /\ Last(memory'[a]).role = "assistant"
               /\ Last(memory'[a]).content = returned'.value
      ]_vars

\* C15 witness: a top-level call returned a text containing a brace, valid all
\* the same, on the attempt after a hallucinated one; it is the last entry of
\* the agent's memory, after the corrective entry.
C15_Witness ==
    /\ Finished
    /\ stack = <<>>
    /\ returned.retried = "hallucination"
    /\ returned.value = <<"braces", " ", "{", " ", "are", " ", "fine">>
    /\ Len(memory[returned.agent]) = 3
    /\ memory[returned.agent][2].role = "system"
    /\ Last(memory[returned.agent]) = AssistantEntry(returned.value)

\* C16 (as claimed): after setup no Tool instance is in the registries of two
\* agents.
C16_ToolOwnedByOneAgent ==
    \A a, b \in Agents : a # b => Tools(a) \cap Tools(b) = {}

\* C17: in every active execute call the inference calls issued in the
\* current iteration number at most 2, whatever made the retry necessary
\* (before a call is issued on attempt j, j calls of this iteration were
\* made, and j < 2), so the calls of its own loop number at most twice its
\* iterations; a finished call issued at most 2 * max_iterations.
C17_AtMostTwoCallsPerIteration ==
    /\ \A i \in 1..Len(stack) :
        LET f == stack[i] IN
            /\ f.iteration <= f.max_iterations
            /\ f.calls <= 2 * f.iteration
            /\ f.pc = "call" =>
                    /\ f.attempt < 2
                    /\ f.calls <= 2 * (f.iteration - 1) + f.attempt
    /\ Finished => returned.calls <= 2 * returned.max_iterations

\* C17 witness: in one iteration a hallucinated text used the first attempt and
\* a transport failure the second; the call ended after these two inference
\* calls.
C17_Witness ==
    /\ Finished
    /\ returned.iteration = 1
    /\ returned.retried = "hallucination"
    /\ returned.calls = 2
    /\ returned.failures = 1
    /\ returned.value = <<"Error calling LLM: ", "ConnectionError">>

\* C18: the iteration counter of an execute call changes only at the head of
\* the while loop, by exactly one, and a new pass starts with attempt 0, the
\* full retry budget; a retry raises the attempt and leaves the iteration
\* counter as it is; and whenever the loop test is reached with fewer than
\* max_iterations passes made (for instance after the tool calls of a second
\* attempt were dispatched) the next pass is made.
C18_RetryConsumesNoIteration ==
    [][\A i \in 1..Len(stack) :
        i <= Len(stack') =>
            LET f == stack[i]
                g == stack'[i]
            IN  /\ g.iteration \in {f.iteration, f.iteration + 1}
                /\ g.iteration = f.iteration + 1 =>
                        /\ i = Len(stack)
                        /\ f.pc = "loop"
                        /\ f.iteration < f.max_iterations
                        /\ g.attempt = 0
                        /\ g.pc = "call"
                /\ g.attempt # f.attempt /\ g.iteration = f.iteration =>
                        /\ g.attempt = f.attempt + 1
                        /\ g.attempt < 2
                        /\ g.pc = "call"
                /\ (i = Len(stack) /\ f.pc = "loop" /\ f.iteration < f.max_iterations) =>
                        g.iteration = f.iteration + 1
      ]_vars

\* C18 witness: the first attempt of iteration 1 failed, its second attempt
\* requested tool calls, which were dispatched; the call is in iteration 2 of
\* 2, on attempt 0.
C18_Witness ==
    /\ Running("call")
    /\ Top.max_iterations = 2
    /\ Top.iteration = 2
    /\ Top.attempt = 0
    /\ Top.calls = 2
    /\ Top.failures = 1
    /\ Top.rounds = 1

\* C19: the first inference call of an iteration (attempt 0) is made with the
\* system instruction followed by the whole memory the agent has at that
\* moment, in order; and no memory entry holds the system instruction.
C19_FirstCallSeesFullMemory ==
    [][ /\ (sent'.n # sent.n /\ Top.attempt = 0)
            => /\ sent'.agent = Top.agent
               /\ sent'.messages =
                    <<[role |-> "system", content |-> <<"system_prompt", Top.agent>>,
                       tool_calls |-> <<>>]>> \o memory[Top.agent]
        /\ \A a \in AllAgents : \A i \in 1..Len(memory'[a]) :
                memory'[a][i] # [role |-> "system", content |-> <<"system_prompt", a>>,
                                 tool_calls |-> <<>>]
      ]_vars

\* C19 witness: the first call of the second iteration of an agent's second
\* execute call was made with the system instruction, the user entry of the
\* earlier call, and the user entry, the tool-call entry and the tool result
\* of this call.
C19_Witness ==
    /\ sent.retried = "none"
    /\ stack # <<>>
    /\ Len(stack) = 1
    /\ topCalls = 2
    /\ Top.iteration = 2
    /\ Top.calls = 2
    /\ Top.agent = sent.agent
    /\ Len(sent.messages) = 5
    /\ sent.messages[1] = SystemEntry(sent.agent)
    /\ sent.messages[2] = UserEntry(UserInput)
    /\ sent.messages[3] = UserEntry(UserInput)
    /\ sent.messages[4].tool_calls # <<>>
    /\ sent.messages[5].role = "tool"

\* C20 (as claimed): a plain text that contains the name of a delegation tool
\* registered on the agent that receives it, together with an opening brace,
\* is classified as hallucinated: it is neither returned nor recorded as an
\* answer.
C20_DelegationNameWithBraceIsHallucinated ==
    [][(/\ sent'.n # sent.n
        /\ sent'.response.kind = "text"
        /\ \E b \in Delegates(sent'.agent) :
                Contains(sent'.response.text, FromAgentName(b))
        /\ Contains(sent'.response.text, <<"{">>))
        => /\ IsHallucinatedResponse(sent'.response.text)
           /\ returned'.value # sent'.response.text
           /\ Last(memory'[sent'.agent]).content # sent'.response.text
      ]_vars

\* C21 (as claimed): for any two different agent names, registering the
\* from_agent wrappers of both in one registry leaves two tools in it, the
\* first still under its own name.
C21_DistinctAgentsDistinctToolNames ==
    \A n1, n2 \in CandidateNames :
        n1 # n2 =>
            LET tools == AddTool(AddTool(NoTools, FromAgent(n1)), FromAgent(n2))
            IN  /\ ToolNameOf(n1) # ToolNameOf(n2)
                /\ Cardinality(DOMAIN tools) = 2
                /\ tools[ToolNameOf(n1)] = FromAgent(n1)

\* C22 (as claimed): a call that returned the apology did so on an attempt that
\* was the retry of a hallucinated one, the corrective system entry having been
\* appended in that iteration: the last attempt was not the retry of a failure.
C22_ApologyOnlyAfterCorrection ==
    (Finished /\ returned.value =
        <<"I apologize, but I'm having trouble generating a proper response.",
          " ", "Please try rephrasing your question.">>)
        => /\ returned.retried = "hallucination"
           /\ \E i \in 1..Len(memory[returned.agent]) :
                memory[returned.agent][i] =
                    [role |-> "system", content |-> CorrectionText, tool_calls |-> <<>>]

\* Agent a has an execute call in the middle of a batch
InBatch(a) ==
    \E i \in 1..Len(stack) :
        stack[i].agent = a /\ stack[i].pc \in {"dispatch", "await"}

\* C23 (as claimed): in the memory of every agent without an execute call in
\* the middle of a batch, every assistant entry with n tool calls is followed
\* at once by exactly n tool entries.
C23_BatchEntriesContiguous ==
    \A a \in AllAgents :
        ~InBatch(a) =>
            \A k \in 1..Len(memory[a]) :
                LET n == Len(memory[a][k].tool_calls) IN
                    n > 0 =>
                        /\ k + n <= Len(memory[a])
                        /\ \A i \in 1..n : memory[a][k + i].role = "tool"
                        /\ k + n < Len(memory[a]) => memory[a][k + n + 1].role # "tool"

\* C24: the step in which an inference call fails with a transport error
\* appends nothing to the agent's memory, whether the call is retried or the
\* error string is returned; a top-level call leaves every memory as it is, a
\* nested one changes only the memory of its caller, which records the string
\* as its tool result.
C24_FailedCallLeavesMemory ==
    [][(sent'.n # sent.n /\ sent'.response.kind = "fail")
        => LET a == Top.agent IN
            /\ memory'[a] = memory[a]
            /\ Len(stack') = Len(stack) =>
                    /\ memory' = memory
                    /\ stack'[Len(stack)].attempt = Top.attempt + 1
            /\ Len(stack') < Len(stack) =>
                    /\ returned'.value = <<"Error calling LLM: ", "ConnectionError">>
                    /\ \A b \in AllAgents :
                            (stack' = <<>> \/ b # stack'[Len(stack')].agent)
                                => memory'[b] = memory[b]
      ]_vars

\* C24 witness: a delegate whose two inference calls failed has returned the
\* error string; its memory holds the task and nothing else.
C24_Witness ==
    /\ Finished
    /\ returned.depth = 2
    /\ returned.calls = 2
    /\ returned.failures = 2
    /\ returned.value = LLMError(<<"ConnectionError">>)
    /\ memory[returned.agent] = <<UserEntry(Task)>>
    /\ sent.response.kind = "fail"

\* C25: the step in which an execute call returns the apology, an
\* "Error calling LLM: ..." string or the max-iterations message appends
\* nothing to that agent's memory, and the memory it leaves ends with a user
\* entry, a tool-call assistant entry, a tool entry or the corrective system
\* entry: never with an assistant entry holding an answer.
C25_OnlyValidatedAnswerRecorded ==
    [][(Len(stack') < Len(stack) /\ IsFailureString(returned'.value))
        => LET a == Top.agent
               e == Last(memory'[a])
           IN  /\ returned'.agent = a
               /\ memory'[a] = memory[a]
               /\ ~(e.role = "assistant" /\ e.content = returned'.value)
               /\ \/ e.role = "user"
                  \/ e.role = "assistant" /\ e.tool_calls # <<>> /\ e.content = <<>>
                  \/ e.role = "tool"
                  \/ e = [role |-> "system", content |-> CorrectionText,
                          tool_calls |-> <<>>]
      ]_vars

\* C25 witness: a call ended with the max-iterations message after one round
\* of dispatch; the next call on the same agent has appended its user entry
\* after the tool entry the first one left.
C25_Witness ==
    /\ topCalls = 2
    /\ Len(stack) = 1
    /\ Top.iteration = 0
    /\ returned.agent = Top.agent
    /\ returned.value = MaxIterationsMessage
    /\ returned.rounds = 1
    /\ Len(memory[Top.agent]) = 4
    /\ memory[Top.agent][2].tool_calls # <<>>
    /\ memory[Top.agent][3].role = "tool"
    /\ memory[Top.agent][4] = UserEntry(UserInput)

Max(S) == CHOOSE x \in S : \A y \in S : y <= x

\* The number of agents on the longest delegation path that starts at a and
\* visits no agent of seen
RECURSIVE PathFrom(_, _)
PathFrom(a, seen) ==
    LET next == Delegates(a) \ seen IN
        IF next = {} THEN 1
        ELSE 1 + Max({PathFrom(b, seen \cup {b}) : b \in next})

LongestPath == Max({PathFrom(a, {a}) : a \in Agents})

\* C26: in the graph without the playback agent, which has no cycle, the
\* active execute calls never number more than the agents on the longest
\* delegation path (nested calls: no more than its edges), and every running
\* call eventually returns to the outside, whatever the endpoint answers.
C26_AcyclicTerminatesWithinPathDepth ==
    /\ [](~playback => Len(stack) <= LongestPath)
    /\ (~playback /\ stack # <<>>) ~> (stack = <<>> /\ returned.how = "return")

\* C26 witness: without the playback agent, under the stub that always
\* requests a delegation, a call of the coordinator went through both of its
\* iterations, the search agent answering each delegation after finding its
\* own delegation tool missing, and has returned.
C26_Witness ==
    /\ ~playback
    /\ mode = "delegate"
    /\ LongestPath = 2
    /\ stack = <<>>
    /\ returned.how = "return"
    /\ returned.agent = "coordinator"
    /\ returned.max_iterations = 2
    /\ returned.rounds = 2
    /\ returned.value = MaxIterationsMessage
    /\ \E i \in 1..Len(memory["search"]) :
            memory["search"][i].content = NotFound(FromAgentName("playback"))

====
